---- MODULE Spec2Model ----
(***************************************************************************)
(* Task registry and Pomodoro tracker of fastapitest.py: two tables        *)
(* (tasks, pomodoro_sessions) behind eight HTTP handlers.  Every handler   *)
(* opens its own database session, queries, and commits at most once.     *)
(***************************************************************************)
EXTENDS Integers, Sequences, FiniteSets, TLC

\* ------------------------------------------------------------- bounds
MaxSessions == 2    \* rows the pomodoro_sessions table may hold
MaxTime == 1        \* datetime.now() reads a minute of 0..MaxTime

\* ------------------------------------------------------ program constants
MinTitleLen == 3
MaxTitleLen == 100
MaxDescriptionLen == 300
PomodoroMinutes == 25

\* The task ids a request may carry, in a path, a query or a body.
Ids == {1, 2}
Times == 0..MaxTime
StatusPattern == {"TODO", "in_progress", "done"}
Procs == {"h1", "h2"}

\* The title, description and status a request body may carry.  "Abc" and
\* "abc" differ only in case; "ab" is shorter than min_length and "paused"
\* does not match the status pattern.  A description
\* is Optional[str]: <<>> is None, <<s>> is the string s.
Contents ==
    {[title |-> "Abc", description |-> <<>>, status |-> "TODO"],
     [title |-> "Abc", description |-> <<"d">>, status |-> "done"],
     [title |-> "abc", description |-> <<>>, status |-> "TODO"],
     [title |-> "ab", description |-> <<>>, status |-> "TODO"],
     [title |-> "Abc", description |-> <<>>, status |-> "paused"]}

\* The request bodies of POST /tasks and PUT /tasks/{task_id}.
TaskModel ==
    {[id |-> i, title |-> c.title, description |-> c.description, status |-> c.status] :
        i \in Ids, c \in Contents}

VARIABLES
    tasks,        \* table tasks: a set of rows [id, title, description, status]
    sessions,     \* table pomodoro_sessions: rows in rowid order
    resp,         \* the last response sent: [op, code]
    everCreated,  \* history: the ids of every task ever stored
    handler       \* per worker thread: the request it is in the middle of

vars == <<tasks, sessions, resp, everCreated, handler>>

Idle == [op |-> "idle", task_id |-> 0, pc |-> "none"]

\* ------------------------------------------------------------ validation
ValidTask(task) ==
    /\ Len(task.title) >= MinTitleLen
    /\ Len(task.title) <= MaxTitleLen
    /\ (task.description = <<>> \/ Len(task.description[1]) <= MaxDescriptionLen)
    /\ task.status \in StatusPattern

\* ---------------------------------------------------------------- queries
\* A title comparison that never finds two titles equal.
TitleEqNever(a, b) == FALSE
\* Task.title == <value>: SQL string equality, exact and case-sensitive.
TitleEq(a, b) == a = b

TaskById(ts, task_id) == {t \in ts : t.id = task_id}

\* create_task without its title query.
TitleTakenNever(ts, title) == FALSE

TitleTaken(ts, title) == \E t \in ts : TitleEq(t.title, title)

\* The title query of update_task without its filter on the id.
TitleTakenByAny(ts, title, task_id) ==
    \E t \in ts : TitleEq(t.title, title)

TitleTakenByOther(ts, title, task_id) ==
    \E t \in ts : TitleEq(t.title, title) /\ t.id # task_id

\* The session query without its filter on completed.
ActiveSessionsAnyState(ss, task_id) ==
    {i \in DOMAIN ss : ss[i].task_id = task_id}

ActiveSessions(ss, task_id) ==
    {i \in DOMAIN ss : ss[i].task_id = task_id /\ ss[i].completed = FALSE}

\* The table without unique=True on title: the primary key alone.
TasksConstraintOKNoUniqueTitle(ts) ==
    \A a, b \in ts : a # b => a.id # b.id

\* The table's constraints, checked by the database at commit:
\* id is the primary key, title is unique.
TasksConstraintOK(ts) ==
    \A a, b \in ts : a # b => (a.id # b.id /\ ~TitleEq(a.title, b.title))

\* INSERT of a row: refused when a row has its id or its title.
InsertOK(ts, row) == row \notin ts /\ TasksConstraintOK(ts \cup {row})

Response(op, code) == [op |-> op, code |-> code]

\* ---------------------------------------------------------------- handlers
\* A handler runs from the request to the response.  The codes the handlers
\* raise are 400 and 404; a body that fails TaskModel's validation is answered
\* 422 before the handler runs, and an IntegrityError that db.commit() raises
\* is not caught and is answered 500, with nothing written.
CreateTaskCode(ts, task) ==
    IF ~ValidTask(task) THEN 422
    ELSE IF TitleTaken(ts, task.title) THEN 400
    ELSE IF ~InsertOK(ts, task) THEN 500
    ELSE 200

CreateTaskStep(task) ==
    LET code == CreateTaskCode(tasks, task) IN
    /\ tasks' = IF code = 200 THEN tasks \cup {task} ELSE tasks
    /\ resp' = Response("create", code)
    /\ UNCHANGED <<sessions, handler>>

CreateTask(task) == CreateTaskStep(task) /\ UNCHANGED everCreated

\* create_task with the history of stored ids kept.
CreateTaskRecorded(task) ==
    /\ CreateTaskStep(task)
    /\ everCreated' = IF resp'.code = 200 THEN everCreated \cup {task.id} ELSE everCreated

GetTask(task_id) ==
    /\ resp' = Response("get", IF TaskById(tasks, task_id) = {} THEN 404 ELSE 200)
    /\ UNCHANGED <<tasks, sessions, everCreated, handler>>

\* update_task assigning the body's id as well.
UpdatedWithBodyId(t, updated_task) ==
    [t EXCEPT !.id = updated_task.id,
              !.title = updated_task.title,
              !.description = updated_task.description,
              !.status = updated_task.status]

Updated(t, updated_task) ==
    [t EXCEPT !.title = updated_task.title,
              !.description = updated_task.description,
              !.status = updated_task.status]

UpdatedTasks(ts, task_id, updated_task) ==
    {IF t.id = task_id THEN Updated(t, updated_task) ELSE t : t \in ts}

\* update_task with the title query before the query for the task.
UpdateTaskCodeTitleFirst(ts, task_id, updated_task) ==
    IF ~ValidTask(updated_task) THEN 422
    ELSE IF TitleTakenByOther(ts, updated_task.title, task_id) THEN 400
    ELSE IF TaskById(ts, task_id) = {} THEN 404
    ELSE 200

UpdateTaskCode(ts, task_id, updated_task) ==
    IF ~ValidTask(updated_task) THEN 422
    ELSE IF TaskById(ts, task_id) = {} THEN 404
    ELSE IF TitleTakenByOther(ts, updated_task.title, task_id) THEN 400
    ELSE IF ~TasksConstraintOK(UpdatedTasks(ts, task_id, updated_task)) THEN 500
    ELSE 200

UpdateTask(task_id, updated_task) ==
    LET code == UpdateTaskCode(tasks, task_id, updated_task) IN
    /\ tasks' = IF code = 200 THEN UpdatedTasks(tasks, task_id, updated_task) ELSE tasks
    /\ resp' = Response("update", code)
    /\ UNCHANGED <<sessions, everCreated, handler>>

\* delete_task without its commit: the row stays.
DeleteTaskNoCommit(task_id) ==
    /\ resp' = Response("delete", IF TaskById(tasks, task_id) = {} THEN 404 ELSE 200)
    /\ UNCHANGED <<tasks, sessions, everCreated, handler>>

\* delete_task completing the task's sessions.
DeleteTaskStopsSessions(task_id) ==
    LET found == TaskById(tasks, task_id) IN
    /\ tasks' = tasks \ found
    /\ sessions' = IF found = {} THEN sessions
                   ELSE [k \in DOMAIN sessions |->
                           IF sessions[k].task_id = task_id
                           THEN [sessions[k] EXCEPT !.completed = TRUE]
                           ELSE sessions[k]]
    /\ resp' = Response("delete", IF found = {} THEN 404 ELSE 200)
    /\ UNCHANGED <<everCreated, handler>>

\* delete_task deleting the task's sessions with it.
DeleteTaskCascade(task_id) ==
    LET found == TaskById(tasks, task_id) IN
    /\ tasks' = tasks \ found
    /\ sessions' = IF found = {} THEN sessions
                   ELSE SelectSeq(sessions, LAMBDA session : session.task_id # task_id)
    /\ resp' = Response("delete", IF found = {} THEN 404 ELSE 200)
    /\ UNCHANGED <<everCreated, handler>>

DeleteTask(task_id) ==
    LET found == TaskById(tasks, task_id) IN
    /\ tasks' = tasks \ found
    /\ resp' = Response("delete", IF found = {} THEN 404 ELSE 200)
    /\ UNCHANGED <<sessions, everCreated, handler>>

\* A session whose end_time is its start_time.
NewSessionNoDuration(task_id, start_time) ==
    [task_id |-> task_id, start_time |-> start_time,
     end_time |-> start_time, completed |-> FALSE]

NewSession(task_id, start_time) ==
    [task_id |-> task_id, start_time |-> start_time,
     end_time |-> start_time + PomodoroMinutes, completed |-> FALSE]

\* create_pomodoro without its query for an active session.
CreatePomodoroCodeNoActiveQuery(ts, ss, task_id) ==
    IF TaskById(ts, task_id) = {} THEN 404 ELSE 200

\* create_pomodoro with its two queries in the other order.
CreatePomodoroCodeActiveFirst(ts, ss, task_id) ==
    IF ActiveSessions(ss, task_id) # {} THEN 400
    ELSE IF TaskById(ts, task_id) = {} THEN 404
    ELSE 200

\* create_pomodoro without its query for the task.
CreatePomodoroCodeNoTaskQuery(ts, ss, task_id) ==
    IF ActiveSessions(ss, task_id) # {} THEN 400 ELSE 200

CreatePomodoroCode(ts, ss, task_id) ==
    IF TaskById(ts, task_id) = {} THEN 404
    ELSE IF ActiveSessions(ss, task_id) # {} THEN 400
    ELSE 200

\* The clock readings the table records: every start_time, and the end_time
\* of every stopped session (an active session's end_time is computed).
Readings(ss) ==
    {ss[i].start_time : i \in DOMAIN ss}
        \cup {ss[i].end_time : i \in {j \in DOMAIN ss : ss[j].completed}}

\* datetime.now(): any minute not before a reading already taken (the clock
\* is taken not to run backwards).
Clock(ss) == {t \in Times : \A r \in Readings(ss) : r <= t}

\* The handler reads the clock only once both queries have let it through.
CreatePomodoro(task_id) ==
    LET code == CreatePomodoroCode(tasks, sessions, task_id) IN
    /\ IF code = 200
       THEN /\ Len(sessions) < MaxSessions
            /\ \E now \in Clock(sessions) :
                   sessions' = Append(sessions, NewSession(task_id, now))
       ELSE UNCHANGED sessions
    /\ resp' = Response("start", code)
    /\ UNCHANGED <<tasks, everCreated, handler>>

\* stop_pomodoro with a query for the task, as create_pomodoro has.
StopPomodoroChecksTask(task_id) ==
    LET active == ActiveSessions(sessions, task_id) IN
    /\ IF TaskById(tasks, task_id) = {}
       THEN /\ resp' = Response("stop", 404)
            /\ UNCHANGED sessions
       ELSE IF active = {}
       THEN /\ resp' = Response("stop", 400)
            /\ UNCHANGED sessions
       ELSE /\ \E i \in active, now \in Clock(sessions) :
                   sessions' = [sessions EXCEPT ![i].completed = TRUE,
                                                ![i].end_time = now]
            /\ resp' = Response("stop", 200)
    /\ UNCHANGED <<tasks, everCreated, handler>>

\* .first() with no ORDER BY: whichever matching row the database returns.
StopPomodoro(task_id) ==
    LET active == ActiveSessions(sessions, task_id) IN
    /\ IF active = {}
       THEN /\ resp' = Response("stop", 400)
            /\ UNCHANGED sessions
       ELSE /\ \E i \in active, now \in Clock(sessions) :
                   sessions' = [sessions EXCEPT ![i].completed = TRUE,
                                                ![i].end_time = now]
            /\ resp' = Response("stop", 200)
    /\ UNCHANGED <<tasks, everCreated, handler>>

\* The rows get_pomodoro_stats would loop over with no filter on completed.
CompletedRowsUnfiltered(ss) == ss

\* query(PomodoroSession).filter(completed == True).all()
CompletedRows(ss) == SelectSeq(ss, LAMBDA session : session.completed = TRUE)

\* stats[task_id] = stats.get(task_id, 0) + 1
Counted(stats, task_id) ==
    [k \in DOMAIN stats \cup {task_id} |->
        IF k = task_id
        THEN (IF task_id \in DOMAIN stats THEN stats[task_id] ELSE 0) + 1
        ELSE stats[k]]

\* str(timedelta) of a whole number of minutes: "[D day[s], ]H:MM:00".
TimedeltaStr(minutes) ==
    [days |-> minutes \div 1440,
     hours |-> (minutes % 1440) \div 60,
     minutes |-> minutes % 60]

\* The loop of get_pomodoro_stats over the rows left to visit.
RECURSIVE StatsLoop(_, _, _)
StatsLoop(rows, stats, total_time) ==
    IF rows = <<>>
    THEN [sessions_per_task |-> stats, total_time |-> TimedeltaStr(total_time)]
    ELSE LET session == Head(rows) IN
         StatsLoop(Tail(rows), Counted(stats, session.task_id),
                   total_time + (session.end_time - session.start_time))

\* The body get_pomodoro_stats returns when the table holds the rows ss.
PomodoroStats(ss) == StatsLoop(CompletedRows(ss), [k \in {} |-> 0], 0)

GetPomodoroStats ==
    /\ resp' = Response("stats", 200)
    /\ UNCHANGED <<tasks, sessions, everCreated, handler>>

\* ----------------------------------------------------------- specification
Init ==
    /\ tasks = {}
    /\ sessions = <<>>
    /\ resp = Response("none", 0)
    /\ everCreated = {}
    /\ handler = [p \in Procs |-> Idle]

Next ==
    \/ \E task \in TaskModel : CreateTask(task)
    \/ \E task_id \in Ids : GetTask(task_id)
    \/ \E task_id \in Ids, updated_task \in TaskModel : UpdateTask(task_id, updated_task)
    \/ \E task_id \in Ids : DeleteTask(task_id)
    \/ \E task_id \in Ids : CreatePomodoro(task_id)
    \/ \E task_id \in Ids : StopPomodoro(task_id)
    \/ GetPomodoroStats

Spec == Init /\ [][Next]_vars

\* ------------------------------------------------- concurrent POST /pomodoro
\* Two worker threads run create_pomodoro at once.  Each statement that goes
\* to the database is one step: the task query, the active-session query,
\* and the commit of the insert.
StartFindTask(p, task_id) ==
    /\ handler[p] = Idle
    /\ IF TaskById(tasks, task_id) = {}
       THEN /\ resp' = Response("start", 404)
            /\ UNCHANGED handler
       ELSE /\ handler' = [handler EXCEPT ![p] =
                    [op |-> "start", task_id |-> task_id, pc |-> "find_active"]]
            /\ UNCHANGED resp
    /\ UNCHANGED <<tasks, sessions, everCreated>>

StartFindActive(p) ==
    /\ handler[p].pc = "find_active"
    /\ IF ActiveSessions(sessions, handler[p].task_id) # {}
       THEN /\ resp' = Response("start", 400)
            /\ handler' = [handler EXCEPT ![p] = Idle]
       ELSE /\ handler' = [handler EXCEPT ![p].pc = "commit"]
            /\ UNCHANGED resp
    /\ UNCHANGED <<tasks, sessions, everCreated>>

StartCommit(p) ==
    /\ handler[p].pc = "commit"
    /\ Len(sessions) < MaxSessions
    /\ \E now \in Clock(sessions) :
           sessions' = Append(sessions, NewSession(handler[p].task_id, now))
    /\ resp' = Response("start", 200)
    /\ handler' = [handler EXCEPT ![p] = Idle]
    /\ UNCHANGED <<tasks, everCreated>>

NextConcurrent ==
    \/ \E task \in TaskModel : CreateTask(task)
    \/ \E task_id \in Ids : DeleteTask(task_id)
    \/ \E task_id \in Ids : StopPomodoro(task_id)
    \/ \E p \in Procs, task_id \in Ids : StartFindTask(p, task_id)
    \/ \E p \in Procs : StartFindActive(p)
    \/ \E p \in Procs : StartCommit(p)

SpecConcurrent == Init /\ [][NextConcurrent]_vars

\* ------------------------------------------ concurrent POST /pomodoro/../stop
\* Two worker threads run stop_pomodoro at once: the query that loads the
\* incomplete session is one step, the commit of the two assignments another.
\* The UPDATE is addressed to the loaded row by its primary key and writes
\* completed and end_time, both of which differ from the loaded values.
StopFind(p, task_id) ==
    LET active == ActiveSessions(sessions, task_id) IN
    /\ handler[p] = Idle
    /\ IF active = {}
       THEN /\ resp' = Response("stop", 400)
            /\ UNCHANGED handler
       ELSE /\ \E i \in active :
                   handler' = [handler EXCEPT ![p] =
                       [op |-> "stop", task_id |-> task_id, pc |-> "commit",
                        session |-> i]]
            /\ UNCHANGED resp
    /\ UNCHANGED <<tasks, sessions, everCreated>>

StopCommit(p) ==
    /\ handler[p].op = "stop"
    /\ \E now \in Clock(sessions) :
           sessions' = [sessions EXCEPT ![handler[p].session].completed = TRUE,
                                        ![handler[p].session].end_time = now]
    /\ resp' = Response("stop", 200)
    /\ handler' = [handler EXCEPT ![p] = Idle]
    /\ UNCHANGED <<tasks, everCreated>>

NextConcurrentStop ==
    \/ \E task \in TaskModel : CreateTask(task)
    \/ \E task_id \in Ids : CreatePomodoro(task_id)
    \/ \E p \in Procs, task_id \in Ids : StopFind(p, task_id)
    \/ \E p \in Procs : StopCommit(p)

SpecConcurrentStop == Init /\ [][NextConcurrentStop]_vars

\* ------------------------------------- concurrent POST /tasks and PUT /tasks
\* Two worker threads run create_task and update_task at once, one step per
\* statement that goes to the database.  A handler keeps its request body
\* and, in update_task, the row its first query loaded.
CreateFindTitle(p, task) ==
    /\ handler[p].op = "idle"
    /\ IF ~ValidTask(task)
       THEN resp' = Response("create", 422) /\ UNCHANGED handler
       ELSE IF TitleTaken(tasks, task.title)
       THEN resp' = Response("create", 400) /\ UNCHANGED handler
       ELSE /\ handler' = [handler EXCEPT ![p] =
                    [op |-> "create", task_id |-> task.id, pc |-> "commit",
                     body |-> task]]
            /\ UNCHANGED resp
    /\ UNCHANGED <<tasks, sessions, everCreated>>

\* db.commit(): the INSERT, which the primary key or the unique title may
\* refuse with an IntegrityError that nothing catches.
CreateCommit(p) ==
    /\ handler[p].op = "create"
    /\ handler[p].pc = "commit"
    /\ IF InsertOK(tasks, handler[p].body)
       THEN /\ tasks' = tasks \cup {handler[p].body}
            /\ resp' = Response("create", 200)
       ELSE /\ resp' = Response("create", 500)
            /\ UNCHANGED tasks
    /\ handler' = [handler EXCEPT ![p] = Idle]
    /\ UNCHANGED <<sessions, everCreated>>

UpdateFindTask(p, task_id, updated_task) ==
    /\ handler[p].op = "idle"
    /\ IF ~ValidTask(updated_task)
       THEN resp' = Response("update", 422) /\ UNCHANGED handler
       ELSE IF TaskById(tasks, task_id) = {}
       THEN resp' = Response("update", 404) /\ UNCHANGED handler
       ELSE /\ \E task \in TaskById(tasks, task_id) :
                   handler' = [handler EXCEPT ![p] =
                       [op |-> "update", task_id |-> task_id, pc |-> "find_title",
                        body |-> updated_task, loaded |-> task]]
            /\ UNCHANGED resp
    /\ UNCHANGED <<tasks, sessions, everCreated>>

UpdateFindTitle(p) ==
    /\ handler[p].op = "update"
    /\ handler[p].pc = "find_title"
    /\ IF TitleTakenByOther(tasks, handler[p].body.title, handler[p].task_id)
       THEN /\ resp' = Response("update", 400)
            /\ handler' = [handler EXCEPT ![p] = Idle]
       ELSE /\ handler' = [handler EXCEPT ![p].pc = "commit"]
            /\ UNCHANGED resp
    /\ UNCHANGED <<tasks, sessions, everCreated>>

\* The columns the flush writes: those assigned a value other than the one
\* loaded.
Dirty(loaded, updated_task) ==
    {c \in {"title", "description", "status"} : updated_task[c] # loaded[c]}

\* UPDATE tasks SET <dirty columns> WHERE id = <id> on the row as it is now.
Written(t, dirty, updated_task) ==
    [c \in DOMAIN t |-> IF c \in dirty THEN updated_task[c] ELSE t[c]]

\* db.commit() and db.refresh(task): the UPDATE of the dirty columns, if any.
\* It fails (nothing catches it) when the row is gone or the new title is
\* another row's; with nothing dirty the refresh fails when the row is gone.
UpdateCommit(p) ==
    LET h == handler[p]
        dirty == Dirty(h.loaded, h.body)
        rows == TaskById(tasks, h.task_id)
        written == (tasks \ rows) \cup {Written(t, dirty, h.body) : t \in rows}
        ok == rows # {} /\ TasksConstraintOK(written)
                       /\ Cardinality(written) = Cardinality(tasks)
    IN
    /\ h.op = "update"
    /\ h.pc = "commit"
    /\ tasks' = IF ok THEN written ELSE tasks
    /\ resp' = Response("update", IF ok THEN 200 ELSE 500)
    /\ handler' = [handler EXCEPT ![p] = Idle]
    /\ UNCHANGED <<sessions, everCreated>>

NextConcurrentRegistry ==
    \/ \E p \in Procs, task \in TaskModel : CreateFindTitle(p, task)
    \/ \E p \in Procs : CreateCommit(p)
    \/ \E p \in Procs, task_id \in Ids, updated_task \in TaskModel :
          UpdateFindTask(p, task_id, updated_task)
    \/ \E p \in Procs : UpdateFindTitle(p)
    \/ \E p \in Procs : UpdateCommit(p)
    \/ \E task_id \in Ids : DeleteTask(task_id)

SpecConcurrentRegistry == Init /\ [][NextConcurrentRegistry]_vars

\* The registry alone, with the history of the ids it has stored.
NextRegistry ==
    \/ \E task \in TaskModel : CreateTaskRecorded(task)
    \/ \E task_id \in Ids, updated_task \in TaskModel : UpdateTask(task_id, updated_task)
    \/ \E task_id \in Ids : DeleteTask(task_id)

SpecRegistry == Init /\ [][NextRegistry]_vars

\* ------------------------------------------------------------------ claims
\* The vocabulary of the claims, stated on the tables themselves.
StoredIds == {t.id : t \in tasks}
StoredTitles == {t.title : t \in tasks}
ActiveRows(task_id) ==
    {k \in DOMAIN sessions : sessions[k].task_id = task_id /\ ~sessions[k].completed}

\* C1: in every state reached by sequential create, update and delete calls,
\* no two stored tasks have the same title (exact, case-sensitive).
C1_UniqueTitles ==
    \A a, b \in tasks : a # b => a.title # b.title

\* Two tasks are stored, their titles differing only in case, and a create
\* has just been refused for its title.
C1_Witness ==
    /\ StoredTitles = {"Abc", "abc"}
    /\ resp = Response("create", 400)

\* C2: in every state reached by sequential task and pomodoro calls, each
\* task_id has at most one session with completed = FALSE.
C2_OneActivePerTask ==
    \A task_id \in Ids : Cardinality(ActiveRows(task_id)) <= 1

\* A task has a stopped session and an active one, and a start has just been
\* refused.
C2_Witness ==
    /\ resp = Response("start", 400)
    /\ \E task_id \in Ids :
        /\ Cardinality(ActiveRows(task_id)) = 1
        /\ \E k \in DOMAIN sessions :
            sessions[k].task_id = task_id /\ sessions[k].completed

\* C3: when several start(task_id) calls for one task run concurrently, at
\* most one of them creates a session: no two rows of pomodoro_sessions with
\* the same task_id are both incomplete.
C3_ConcurrentStartsOneActive ==
    \A j, k \in DOMAIN sessions :
        (j # k /\ sessions[j].task_id = sessions[k].task_id)
            => (sessions[j].completed \/ sessions[k].completed)

\* C4: a successful create stores an id no task ever had before, deleted
\* tasks included, and a create with a valid, unused title never fails
\* because of its id.
C4_IdsNeverReused ==
    [][\A task \in TaskModel :
          CreateTaskRecorded(task) =>
              /\ resp'.code = 200 => \A t \in tasks' \ tasks : t.id \notin everCreated
              /\ (ValidTask(task) /\ task.title \notin StoredTitles) => resp'.code = 200
      ]_vars

\* C5 as claimed: start(task_id) while task_id has an incomplete session
\* fails with 400 and leaves the sessions unchanged, one of them active.
C5_StartWhileActiveIs400 ==
    [][\A task_id \in Ids :
          (ActiveRows(task_id) # {} /\ CreatePomodoro(task_id)) =>
              /\ resp' = Response("start", 400)
              /\ sessions' = sessions
              /\ Cardinality({k \in DOMAIN sessions' :
                     sessions'[k].task_id = task_id /\ ~sessions'[k].completed}) = 1
      ]_vars

\* C5 as amended: start(task_id) while task_id has an incomplete session
\* fails and leaves the sessions unchanged, one of them active; it fails with
\* 400 if a task with that id is stored and with 404 if none is (the task
\* was deleted while its session was active).
C5_StartWhileActiveFails ==
    [][\A task_id \in Ids :
          (ActiveRows(task_id) # {} /\ CreatePomodoro(task_id)) =>
              /\ resp' = Response("start", IF task_id \in StoredIds THEN 400 ELSE 404)
              /\ sessions' = sessions
              /\ Cardinality({k \in DOMAIN sessions' :
                     sessions'[k].task_id = task_id /\ ~sessions'[k].completed}) = 1
      ]_vars

\* A start has just been refused with 400 and its task has one active session.
C5_Witness ==
    /\ resp = Response("start", 400)
    /\ \E task_id \in StoredIds : Cardinality(ActiveRows(task_id)) = 1

\* C6: stop(task_id) when task_id has no incomplete session fails with 400
\* and leaves every session and every task unchanged.
C6_StopWithoutActiveFails ==
    [][\A task_id \in Ids :
          (ActiveRows(task_id) = {} /\ StopPomodoro(task_id)) =>
              /\ resp' = Response("stop", 400)
              /\ sessions' = sessions
              /\ tasks' = tasks
      ]_vars

\* A stop has just been refused while a stopped session is in the table.
C6_Witness ==
    /\ resp = Response("stop", 400)
    /\ \E k \in DOMAIN sessions : sessions[k].completed

\* C7: start(task_id) for an id no stored task has fails with 404 and creates
\* no session; every session, when it is created, references a stored task.
C7_StartUnknownTaskIs404 ==
    [][/\ \A task_id \in Ids :
            (task_id \notin StoredIds /\ CreatePomodoro(task_id)) =>
                /\ resp' = Response("start", 404)
                /\ sessions' = sessions
       /\ Len(sessions') > Len(sessions) =>
            sessions'[Len(sessions')].task_id \in StoredIds
      ]_vars

\* A start has just been refused with 404 while another task is stored.
C7_Witness ==
    /\ resp = Response("start", 404)
    /\ tasks # {}
    /\ sessions = <<>>

\* C8: create with the title of a stored task fails with 400 and leaves the
\* registry unchanged, whatever id, description and status the (valid)
\* request carries.
C8_CreateTakenTitleIs400 ==
    [][\A task \in TaskModel :
          (resp'.op = "create" /\ task.title \in StoredTitles /\ ValidTask(task)
              /\ CreateTask(task)) =>
              /\ resp' = Response("create", 400)
              /\ tasks' = tasks
      ]_vars

\* A create has just been refused with 400 and one task is stored.
C8_Witness ==
    /\ resp = Response("create", 400)
    /\ Cardinality(tasks) = 1

\* C9: update(id, ...) for an id no stored task has fails with 404 and
\* changes no task and no session, whatever title the (valid) request carries.
C9_UpdateUnknownIdIs404 ==
    [][\A task_id \in Ids \ StoredIds, updated_task \in TaskModel :
          (resp'.op = "update" /\ ValidTask(updated_task)
              /\ UpdateTask(task_id, updated_task)) =>
              /\ resp' = Response("update", 404)
              /\ tasks' = tasks
              /\ sessions' = sessions
      ]_vars

\* An update has just been refused with 404 while a task and a session exist.
C9_Witness ==
    /\ resp = Response("update", 404)
    /\ tasks # {}
    /\ sessions # <<>>

\* C10: a successful delete(id) leaves no task with that id, an id no task
\* has stays so through every call but a create, and get(id) for such an id
\* fails with 404; delete(id) for such an id fails with 404 and removes nothing.
C10_DeleteThenGetIs404 ==
    [][\A task_id \in Ids :
          /\ (task_id \in StoredIds /\ DeleteTask(task_id)) =>
                /\ resp' = Response("delete", 200)
                /\ \A t \in tasks' : t.id # task_id
          /\ (task_id \notin StoredIds /\ DeleteTask(task_id)) =>
                /\ resp' = Response("delete", 404)
                /\ tasks' = tasks
          /\ (task_id \notin StoredIds /\ resp'.op # "create") =>
                \A t \in tasks' : t.id # task_id
          /\ (task_id \notin StoredIds /\ GetTask(task_id)) =>
                resp' = Response("get", 404)
      ]_vars

\* One task is stored, a session of the other id outlives its deleted task,
\* and a get (of that other id: the stored one is found) has just failed.
C10_Witness ==
    /\ resp = Response("get", 404)
    /\ Cardinality(StoredIds) = 1
    /\ \E k \in DOMAIN sessions : sessions[k].task_id \notin StoredIds

\* The rows that are stopped, and the minutes they add up to.
StoppedRows == {k \in DOMAIN sessions : sessions[k].completed}
RECURSIVE MinutesOf(_)
MinutesOf(rows) ==
    IF rows = {} THEN 0
    ELSE LET k == CHOOSE r \in rows : TRUE IN
         (sessions[k].end_time - sessions[k].start_time) + MinutesOf(rows \ {k})

\* C11: in every reachable state stats() maps exactly the task_ids that have
\* a stopped session, each to the number of its stopped sessions, and its
\* total is the sum of end_time - start_time over the stopped sessions;
\* active sessions add no key and no time.
C11_StatsCountStopped ==
    LET out == PomodoroStats(sessions)
        total == out.total_time
    IN /\ DOMAIN out.sessions_per_task = {sessions[k].task_id : k \in StoppedRows}
       /\ \A task_id \in DOMAIN out.sessions_per_task :
             out.sessions_per_task[task_id]
                 = Cardinality({k \in StoppedRows : sessions[k].task_id = task_id})
       /\ total.days * 1440 + total.hours * 60 + total.minutes = MinutesOf(StoppedRows)
       /\ total.hours \in 0..23 /\ total.minutes \in 0..59

\* stats has just been asked for while one task_id has a stopped session that
\* lasted a minute and another has only an active one.
C11_Witness ==
    /\ resp = Response("stats", 200)
    /\ \E k \in StoppedRows : sessions[k].end_time > sessions[k].start_time
    /\ \E task_id \in Ids :
          /\ ActiveRows(task_id) # {}
          /\ \A k \in StoppedRows : sessions[k].task_id # task_id

\* C12: under any interleaving of concurrent create and update calls, no
\* title is the title of two stored tasks.
C12_ConcurrentUniqueTitles ==
    \A title \in StoredTitles : Cardinality({t \in tasks : t.title = title}) = 1

\* A create and an update of another id have both passed their title query
\* for one title that no task has yet, and neither has committed.
C12_Witness ==
    \E p, q \in Procs :
        /\ handler[p].op = "create" /\ handler[p].pc = "commit"
        /\ handler[q].op = "update" /\ handler[q].pc = "commit"
        /\ handler[p].body.title = handler[q].body.title
        /\ handler[p].task_id # handler[q].task_id
        /\ handler[p].task_id \notin StoredIds
        /\ handler[q].task_id \in StoredIds
        /\ handler[p].body.title \notin StoredTitles

\* The write handler p is about to commit is one only the unique title can
\* refuse: its row's id is free (create) or still stored (update), and the
\* title it writes is by now the title of a task with another id.
LosesTitleRace(p) ==
    LET h == handler[p] IN
    /\ h.op \in {"create", "update"}
    /\ h.pc = "commit"
    /\ \E t \in tasks : t.title = h.body.title /\ t.id # h.task_id
    /\ h.op = "create" => h.task_id \notin StoredIds
    /\ h.op = "update" =>
          (h.task_id \in StoredIds /\ h.body.title # h.loaded.title)

\* C13: a create or update that passed its own title query and then has its
\* write refused by the unique constraint is answered 400, as a sequential
\* title conflict is.
C13_LostRaceIs400 ==
    [][\A p \in Procs :
          (LosesTitleRace(p) /\ handler'[p] = Idle) => resp'.code = 400
      ]_vars

\* C14: a stopped session keeps its fields in every later state, no session
\* is ever removed, and a session's fields change only in the one stop that
\* completes it, also when stop requests run in two worker threads.
C14_SessionsOneWay ==
    [][/\ Len(sessions') >= Len(sessions)
       /\ \A k \in DOMAIN sessions :
            /\ sessions[k].completed => sessions'[k] = sessions[k]
            /\ sessions'[k] # sessions[k] =>
                  /\ resp' = Response("stop", 200)
                  /\ ~sessions[k].completed /\ sessions'[k].completed
                  /\ sessions'[k].task_id = sessions[k].task_id
                  /\ sessions'[k].start_time = sessions[k].start_time
      ]_vars

\* C15: a successful start appends one session with the task_id, a clock
\* reading as start_time, end_time 25 minutes later and completed = FALSE; a
\* successful stop changes only the one incomplete session of the task_id,
\* to completed = TRUE and a clock reading not before its start_time as
\* end_time; both leave the other sessions and the tasks as they were.
C15_StartStopFrame ==
    [][\A task_id \in Ids :
          /\ (resp' = Response("start", 200) /\ CreatePomodoro(task_id)) =>
                /\ Len(sessions') = Len(sessions) + 1
                /\ SubSeq(sessions', 1, Len(sessions)) = sessions
                /\ sessions'[Len(sessions')].task_id = task_id
                /\ sessions'[Len(sessions')].completed = FALSE
                /\ sessions'[Len(sessions')].start_time \in Times
                /\ sessions'[Len(sessions')].end_time
                       = sessions'[Len(sessions')].start_time + 25
                /\ tasks' = tasks
          /\ (resp' = Response("stop", 200) /\ StopPomodoro(task_id)) =>
                /\ Len(sessions') = Len(sessions)
                /\ \E k \in DOMAIN sessions :
                      /\ ActiveRows(task_id) = {k}
                      /\ sessions'[k].completed = TRUE
                      /\ sessions'[k].end_time \in Times
                      /\ sessions'[k].end_time >= sessions[k].start_time
                      /\ sessions'[k].task_id = task_id
                      /\ sessions'[k].start_time = sessions[k].start_time
                      /\ \A j \in DOMAIN sessions \ {k} : sessions'[j] = sessions[j]
                /\ tasks' = tasks
      ]_vars

\* A stop has just succeeded a minute after the start, beside another
\* session that is still active.
C15_Witness ==
    /\ resp = Response("stop", 200)
    /\ \E k \in StoppedRows : sessions[k].end_time = sessions[k].start_time + 1
    /\ \E k \in DOMAIN sessions :
          ~sessions[k].completed /\ sessions[k].end_time = sessions[k].start_time + 25

\* C16: a successful delete removes the one task with the id and leaves the
\* other tasks and every session, those of the deleted id included, as they
\* were.
C16_DeleteFrame ==
    [][\A task_id \in StoredIds :
          (resp'.op = "delete" /\ DeleteTask(task_id)) =>
              /\ resp' = Response("delete", 200)
              /\ tasks' = {t \in tasks : t.id # task_id}
              /\ Cardinality(tasks') = Cardinality(tasks) - 1
              /\ sessions' = sessions
      ]_vars

\* A task has just been deleted; a stopped and an active session of an id
\* that is not stored are still there, beside another task.
C16_Witness ==
    /\ resp = Response("delete", 200)
    /\ Cardinality(tasks) = 1
    /\ \E j, k \in DOMAIN sessions :
          /\ sessions[j].task_id \notin StoredIds /\ sessions[j].completed
          /\ sessions[k].task_id \notin StoredIds /\ ~sessions[k].completed

\* C17: an update of a stored id with a valid body is answered 400 and
\* changes nothing exactly when a task of another id has the new title;
\* otherwise it is answered 200, the task gets the body's title, description
\* and status and keeps the path id, whatever id the body carries, and the
\* other tasks stay as they were.
C17_UpdateFrame ==
    [][resp'.op = "update" =>
         \A task_id \in StoredIds, updated_task \in TaskModel :
          (ValidTask(updated_task) /\ UpdateTask(task_id, updated_task)) =>
                 IF \E t \in tasks : t.id # task_id /\ t.title = updated_task.title
                 THEN /\ resp' = Response("update", 400)
                      /\ tasks' = tasks
                 ELSE /\ resp' = Response("update", 200)
                      /\ tasks' = {t \in tasks : t.id # task_id} \cup
                             {[id |-> task_id,
                               title |-> updated_task.title,
                               description |-> updated_task.description,
                               status |-> updated_task.status]}
      ]_vars

\* An update has just succeeded while two tasks are stored, one of them done.
C17_Witness ==
    /\ resp = Response("update", 200)
    /\ \E a, b \in tasks : a.id # b.id /\ a.status = "done"

\* C18: no two stored tasks have the same id, and the set of stored ids
\* grows only in a create, shrinks only in a delete and is kept by an update.
C18_IdsUniqueAndFixed ==
    [][/\ \A a, b \in tasks' : a # b => a.id # b.id
       /\ resp'.op # "create" => {t.id : t \in tasks'} \subseteq StoredIds
       /\ resp'.op # "delete" => StoredIds \subseteq {t.id : t \in tasks'}
       /\ resp'.op = "update" => Cardinality(tasks') = Cardinality(tasks)
      ]_vars

\* Both ids are stored and an update has just been refused for its title.
C18_Witness ==
    /\ resp = Response("update", 400)
    /\ StoredIds = Ids

\* C19: a stop for an id that is not stored, while a session of that id is
\* incomplete, is answered 200 and completes that session; and a request
\* for the statistics gets the stopped sessions of ids that are not stored
\* counted under those ids.
C19_StopAndStatsIgnoreTasks ==
    [][/\ \A task_id \in Ids \ StoredIds :
            (ActiveRows(task_id) # {} /\ resp'.op = "stop"
                /\ StopPomodoro(task_id)) =>
                /\ resp' = Response("stop", 200)
                /\ \E k \in ActiveRows(task_id) :
                      /\ sessions'[k].completed
                      /\ \A j \in DOMAIN sessions \ {k} : sessions'[j] = sessions[j]
       /\ (resp'.op = "stats" /\ GetPomodoroStats) =>
             \A task_id \in Ids \ StoredIds :
                LET stopped == {k \in StoppedRows : sessions[k].task_id = task_id}
                    stats == PomodoroStats(sessions).sessions_per_task
                IN  stopped # {} =>
                       (task_id \in DOMAIN stats
                           /\ stats[task_id] = Cardinality(stopped))
      ]_vars

\* A stop has just succeeded while no task is stored.
C19_Witness ==
    /\ resp = Response("stop", 200)
    /\ tasks = {}
    /\ StoppedRows # {}

\* C20: an incomplete session of an id stays incomplete through every step
\* but a successful stop for that id, deletes and creates of that id
\* included; while it is there every start for the stored id is answered
\* 400; a successful stop leaves the id without an incomplete session; and a
\* start for a stored id without an incomplete session is answered 200.
C20_OrphanBlocksStartUntilStop ==
    [][\A task_id \in Ids :
          /\ \/ ActiveRows(task_id) \subseteq
                    {k \in DOMAIN sessions' : sessions'[k].task_id = task_id
                                                 /\ ~sessions'[k].completed}
             \/ resp' = Response("stop", 200) /\ StopPomodoro(task_id)
          /\ (resp'.op = "start" /\ task_id \in StoredIds
                 /\ ActiveRows(task_id) # {} /\ CreatePomodoro(task_id)) =>
                 /\ resp' = Response("start", 400)
                 /\ sessions' = sessions
          /\ (resp' = Response("stop", 200) /\ StopPomodoro(task_id)) =>
                 \A k \in DOMAIN sessions' :
                    sessions'[k].task_id = task_id => sessions'[k].completed
          /\ (resp'.op = "start" /\ task_id \in StoredIds
                 /\ ActiveRows(task_id) = {} /\ CreatePomodoro(task_id)) =>
                 /\ resp' = Response("start", 200)
                 /\ sessions'[Len(sessions')].task_id = task_id
                 /\ ~sessions'[Len(sessions')].completed
      ]_vars

\* A task has just been created under the id of an incomplete session: the
\* only stored task, so the session's first task was deleted.
C20_Witness ==
    /\ resp = Response("create", 200)
    /\ \E t \in tasks : tasks = {t} /\ ActiveRows(t.id) # {}

====
